---- MODULE Spec2Model ----
(***************************************************************************)
(* Qigong energy tracker (QigongCalculator component, Supabase version).   *)
(*                                                                         *)
(* Numbers.  The component computes with JavaScript numbers; the model     *)
(* computes the same expressions in exact decimal arithmetic:              *)
(*   - a stored energy, gain or loss (the result of toFixed(2)) is an      *)
(*     integer number of hundredths;                                       *)
(*   - a growth factor is an integer number of millionths;                 *)
(*   - currentEnergy, which the component never rounds, is an exact        *)
(*     decimal [h |-> hundredths, d |-> the digits after the hundredths].  *)
(* toFixed rounds to the nearest value and picks the larger magnitude on a *)
(* tie.                                                                    *)
(*                                                                         *)
(* Time.  Date.now() is the variable now, in whole seconds.  null and 0    *)
(* behave alike in every use the component makes of startTime, so          *)
(* startTime = 0 stands for null.                                          *)
(*                                                                         *)
(* Asynchrony.  An async handler runs up to its await in one step; the     *)
(* rest of it runs in a later step, when the persistence call answers.     *)
(* The handler's closure (the dailyLog, currentEnergy and currentDay of    *)
(* the render it was created in) is kept in the pending record.            *)
(*                                                                         *)
(* Scope.  editingDay only says which table cell shows an input; an edit   *)
(* is one step, EditMinutes, from the click to the submitted value.  The   *)
(* clock moves only while a practice runs, the one time the component      *)
(* reads it.  failures counts the persistence calls that answered with an  *)
(* error of their own (a call the store must refuse is always refused),    *)
(* overlaps counts the handlers started while another one was waiting;     *)
(* MaxFailures and MaxOverlaps limit both.                                 *)
(*                                                                         *)
(* Specifications.  Spec is the page: every step is a click, a tick of the *)
(* stopwatch or the answer of the store.  SpecCalls adds calls of          *)
(* handleEditMinutes for days whose row offers no input.  SpecEngine       *)
(* applies the computations of the engine to a log of one day, for every   *)
(* number of minutes up to MaxMinutes; SpecExample applies them over the   *)
(* days 1..MaxDay for a few numbers of minutes; SpecRegimen drives the     *)
(* tracker through days of equal practice; SpecRecovery lets up to         *)
(* MaxSkips days be skipped first and then has 40 minutes practised every  *)
(* day, for RecoveryDays days.                                             *)
(*                                                                         *)
(* First version.  SpecFirst is the first version of the tracker           *)
(* (src/index.jsx), which has no stopwatch and no store: its state is      *)
(* dailyLog, currentDay, currentEnergy and the flag didPracticeToday.  The *)
(* module's variable isPracticing, which that version does not have, holds *)
(* the flag; practiceMinutes, which the slider sets and only               *)
(* logPracticeDay reads, is the argument of logPracticeDay.  The handlers  *)
(* are called in every state, also where the page shows no button for      *)
(* them, for the first FirstDays days.                                     *)
(***************************************************************************)
EXTENDS Integers, Sequences, FiniteSets, TLC

\* ------------------------------------------------------------- bounds
MaxDay == 2
MaxTicks == 2
MaxPending == 2
MaxFailures == 1
MaxOverlaps == 1
MaxMinutes == 120
MaxSkips == 23
RecoveryDays == 133
FirstDays == 4
TickSeconds == 30 * 60

\* ---------------------------------------------------------- constants
baseValue == 995776
minuteMultiplier == 1418
dailyEnergyLossTenths == 1
Million == 1000 * 1000

\* ------------------------------------------------- nullable numbers
Num(v) == [t |-> "number", v |-> v]
Null == [t |-> "null", v |-> 0]
Undefined == [t |-> "undefined", v |-> 0]

\* ------------------------------------------------- decimal arithmetic
RECURSIVE Strip(_)
Strip(ds) ==
    IF ds = <<>> THEN <<>>
    ELSE IF ds[Len(ds)] = 0 THEN Strip(SubSeq(ds, 1, Len(ds) - 1))
    ELSE ds

RECURSIVE DigitsOf(_, _)
\* the n low decimal digits of v, most significant first
DigitsOf(v, n) ==
    IF n = 0 THEN <<>> ELSE Append(DigitsOf(v \div 10, n - 1), v % 10)

DecOfHundredths(e) == [h |-> e, d |-> <<>>]

\* startEnergy (hundredths) * factor (millionths), exact; the product is
\* taken in two parts, the thousands of the factor and the rest, so that
\* no intermediate value leaves the range of the integers
DecProduct(startEnergy, factor) ==
    LET a == startEnergy * (factor \div 1000)
        b == (a % 1000) * 1000 + startEnergy * (factor % 1000)
    IN  [h |-> (a \div 1000) + (b \div Million),
         d |-> Strip(DigitsOf(b % Million, 6))]

RECURSIVE TimesDigit(_, _)
\* <<carry, digits>> of ds * k, for a digit k
TimesDigit(ds, k) ==
    IF ds = <<>> THEN <<0, <<>>>>
    ELSE LET rest == TimesDigit(Tail(ds), k)
             v == Head(ds) * k + rest[1]
         IN  <<v \div 10, <<v % 10>> \o rest[2]>>

\* x * k / 10, exact, for a digit k
DecTimesTenths(x, k) ==
    LET m == TimesDigit(x.d, k)
        hk == x.h * k + m[1]
    IN  [h |-> hk \div 10, d |-> Strip(<<hk % 10>> \o m[2])]

RECURSIVE MinusDigits(_, _)
\* <<borrow, digits>> of xs - ys, two digit strings of one length
MinusDigits(xs, ys) ==
    IF xs = <<>> THEN <<0, <<>>>>
    ELSE LET rest == MinusDigits(Tail(xs), Tail(ys))
             v == Head(xs) - Head(ys) - rest[1]
         IN  IF v < 0 THEN <<1, <<v + 10>> \o rest[2]>>
             ELSE <<0, <<v>> \o rest[2]>>

PadTo(ds, n) == ds \o [i \in 1..(n - Len(ds)) |-> 0]

\* x - y, exact, for y <= x
DecMinus(x, y) ==
    LET n == IF Len(x.d) > Len(y.d) THEN Len(x.d) ELSE Len(y.d)
        m == MinusDigits(PadTo(x.d, n), PadTo(y.d, n))
    IN  [h |-> x.h - y.h - m[1], d |-> Strip(m[2])]

\* (n / d) rounded to the nearest integer, ties away from zero
RoundDiv(n, d) ==
    IF n >= 0 THEN (2 * n + d) \div (2 * d)
    ELSE -((2 * (-n) + d) \div (2 * d))

\* mutant: the digits after the hundredths are cut off
ToFixed2_Truncates(x) == x.h

\* parseFloat(x.toFixed(2)) of an exact decimal, in hundredths
ToFixed2(x) == x.h + (IF Len(x.d) > 0 /\ x.d[1] >= 5 THEN 1 ELSE 0)

\* ------------------------------------------------- growth factor
\* mutant: the minutes are left out of the product
calculateGrowthFactor_NoMinutes(minutes) == baseValue + minuteMultiplier

\* mutant: minutes past the first half hour do not count
calculateGrowthFactor_Capped(minutes) ==
    baseValue + (IF minutes > 30 THEN 30 ELSE minutes) * minuteMultiplier

\* mutant: the base is 1
calculateGrowthFactor_BaseOne(minutes) ==
    Million + minutes * minuteMultiplier

calculateGrowthFactor(minutes) == baseValue + minutes * minuteMultiplier

\* ------------------------------------------------------------ state
VARIABLES
    dailyLog,                 \* useState([]): sequence of entries
    currentDay,               \* useState(1)
    currentEnergy,            \* useState(1): exact decimal
    isPracticing,             \* useState(false)
    startTime,                \* useState(null): seconds, 0 for null
    elapsedTime,              \* useState(0): seconds
    accumulatedSecondsToday,  \* useState(0)
    intervalRef,              \* useRef(null): TRUE while an interval is set
    isLoading,                \* useState(true)
    now,                      \* Date.now(), in seconds
    db,                       \* the rows of table "calculations", by day
    pending,                  \* async handlers waiting for their answer
    failures,                 \* persistence calls that failed so far
    overlaps,                 \* handlers called while another one waited
    lastResponse              \* the { error } the last answer carried

vars == <<dailyLog, currentDay, currentEnergy, isPracticing, startTime,
          elapsedTime, accumulatedSecondsToday, intervalRef, isLoading,
          now, db, pending, failures, overlaps, lastResponse>>

engine == <<dailyLog, currentDay, currentEnergy>>
budget == <<failures, overlaps>>
timer == <<isPracticing, startTime, elapsedTime, accumulatedSecondsToday,
           intervalRef>>

\* ---------------------------------------------------------- helpers
Max(a, b) == IF a > b THEN a ELSE b

\* Array.prototype.findIndex on the day; 0 when nothing is found (-1)
FindIndex(log, day) ==
    IF \E i \in 1..Len(log) : log[i].day = day
    THEN CHOOSE i \in 1..Len(log) :
            /\ log[i].day = day
            /\ \A j \in 1..(i - 1) : log[j].day # day
    ELSE 0

\* Array.prototype.findLast of (log.day < day); 0 when nothing is found
FindLastBefore(log, day) ==
    IF \E i \in 1..Len(log) : log[i].day < day
    THEN CHOOSE i \in 1..Len(log) :
            /\ log[i].day < day
            /\ \A j \in (i + 1)..Len(log) : ~(log[j].day < day)
    ELSE 0

Days(log) == {log[i].day : i \in 1..Len(log)}

RemoveAt(q, i) == SubSeq(q, 1, i - 1) \o SubSeq(q, i + 1, Len(q))

\* ------------------------------------------- persistence collaborator
\* Table "calculations" holds one row per day (the upserts name the
\* conflict target "day", which needs a unique index on day); a select
\* returns the rows in ascending day order.
RECURSIVE InsertRow(_, _)
InsertRow(rows, row) ==
    IF rows = <<>> THEN <<row>>
    ELSE IF row.day < Head(rows).day THEN <<row>> \o rows
    ELSE <<Head(rows)>> \o InsertRow(Tail(rows), row)

\* JSON leaves an undefined field out, and the column reads back as null
DbRow(entry) ==
    [entry EXCEPT !.gain = IF @ = Undefined THEN Null ELSE @,
                  !.growthFactor = IF @ = Undefined THEN Null ELSE @,
                  !.loss = IF @ = Undefined THEN Null ELSE @]

UpsertRow(rows, entry) ==
    LET i == FindIndex(rows, entry.day)
    IN  IF i = 0 THEN InsertRow(rows, DbRow(entry))
        ELSE [rows EXCEPT ![i] = DbRow(entry)]

RECURSIVE Upsert(_, _)
\* .upsert(entries, { onConflict: "day" })
Upsert(rows, entries) ==
    IF entries = <<>> THEN rows
    ELSE Upsert(UpsertRow(rows, Head(entries)), Tail(entries))

\* one statement cannot update a row twice: a batch that names a day twice
\* is refused
UpsertRefused(entries) ==
    \E i, j \in 1..Len(entries) : i # j /\ entries[i].day = entries[j].day

\* .insert(entry): refused when the day already has a row
InsertRefused(rows, entry) == entry.day \in Days(rows)

\* ------------------------------------------------------- async calls
NoResponse == [op |-> "none", error |-> FALSE, alerted |-> FALSE]

\* the answer to handler op; alerted when the handler tells the user of
\* the error with alert(...)
Response(op, error, alerted) ==
    [op |-> op, error |-> error, alerted |-> alerted]

\* what a handler created in the current render sees
Closure ==
    [dailyLog |-> dailyLog, currentEnergy |-> currentEnergy,
     currentDay |-> currentDay]

Await(op, rows, recalculatedLog) ==
    [op |-> op, rows |-> rows, recalculatedLog |-> recalculatedLog,
     closure |-> Closure]

\* a handler may be called while earlier ones still wait
CanAwait ==
    \/ pending = <<>>
    \/ Len(pending) < MaxPending /\ overlaps < MaxOverlaps

\* pending with one more waiting handler
Awaiting(op, rows, recalculatedLog) ==
    /\ pending' = Append(pending, Await(op, rows, recalculatedLog))
    /\ overlaps' = IF pending = <<>> THEN overlaps ELSE overlaps + 1

\* the answer of a persistence call: an error when the collaborator
\* refuses the statement, and otherwise an error or not
Answers(refused, error) ==
    /\ refused => error
    /\ (error /\ ~refused) => failures < MaxFailures
    /\ failures' = IF error /\ ~refused THEN failures + 1 ELSE failures
    /\ UNCHANGED overlaps

\* --------------------------------------------------------------- Init
Init ==
    /\ dailyLog = <<>>
    /\ currentDay = 1
    /\ currentEnergy = DecOfHundredths(100)
    /\ isPracticing = FALSE
    /\ startTime = 0
    /\ elapsedTime = 0
    /\ accumulatedSecondsToday = 0
    /\ intervalRef = FALSE
    /\ isLoading = TRUE
    /\ now = 1
    /\ db = <<>>
    /\ failures = 0
    /\ overlaps = 0
    /\ pending = <<Await("fetchLog", <<>>, <<>>)>>
    /\ lastResponse = NoResponse

\* ----------------------------------------------------------- fetchLog
\* mutant: the tracker resumes on the day of the last row
fetchLog_OnLastDay(i, error) ==
    /\ pending[i].op = "fetchLog"
    /\ Answers(FALSE, error)
    /\ pending' = RemoveAt(pending, i)
    /\ lastResponse' = Response("fetchLog", error, FALSE)
    /\ IF ~error /\ Len(db) > 0
       THEN /\ dailyLog' = db
            /\ currentEnergy' = DecOfHundredths(db[Len(db)].energy)
            /\ currentDay' = db[Len(db)].day
       ELSE /\ dailyLog' = <<>>
            /\ currentDay' = 1
            /\ currentEnergy' = DecOfHundredths(100)
    /\ isLoading' = FALSE
    /\ UNCHANGED <<timer, now, db>>

\* the answer of the select issued on mount
fetchLog(i, error) ==
    /\ pending[i].op = "fetchLog"
    /\ Answers(FALSE, error)
    /\ pending' = RemoveAt(pending, i)
    /\ lastResponse' = Response("fetchLog", error, FALSE)
    /\ IF ~error /\ Len(db) > 0
       THEN /\ dailyLog' = db
            /\ currentEnergy' = DecOfHundredths(db[Len(db)].energy)
            /\ currentDay' = db[Len(db)].day + 1
       ELSE /\ dailyLog' = <<>>
            /\ currentDay' = 1
            /\ currentEnergy' = DecOfHundredths(100)
    /\ isLoading' = FALSE
    /\ UNCHANGED <<timer, now, db>>

\* the page is loaded again: the component is constructed anew and the
\* handlers of the old page never resume
Reload ==
    /\ dailyLog' = <<>>
    /\ currentDay' = 1
    /\ currentEnergy' = DecOfHundredths(100)
    /\ isPracticing' = FALSE
    /\ startTime' = 0
    /\ elapsedTime' = 0
    /\ accumulatedSecondsToday' = 0
    /\ intervalRef' = FALSE
    /\ isLoading' = TRUE
    /\ pending' = <<[op |-> "fetchLog", rows |-> <<>>,
                     recalculatedLog |-> <<>>,
                     closure |-> [dailyLog |-> <<>>,
                                  currentEnergy |-> DecOfHundredths(100),
                                  currentDay |-> 1]]>>
    /\ lastResponse' = NoResponse
    /\ UNCHANGED <<now, db, budget>>

\* -------------------------------------------------------------- timer
\* time passes while the stopwatch runs; the interval callback, when set,
\* stores the seconds since startTime
Tick ==
    /\ isPracticing
    /\ now + TickSeconds <= 1 + MaxTicks * TickSeconds
    /\ now' = now + TickSeconds
    /\ elapsedTime' = IF intervalRef THEN now' - startTime ELSE elapsedTime
    /\ lastResponse' = NoResponse
    /\ UNCHANGED <<engine, isPracticing, startTime, accumulatedSecondsToday,
                   intervalRef, isLoading, db, pending, budget>>

handleStartPractice ==
    /\ ~isPracticing
    /\ startTime' = now - elapsedTime
    /\ isPracticing' = TRUE
    /\ intervalRef' = (startTime' # 0)
    /\ lastResponse' = NoResponse
    /\ UNCHANGED <<engine, elapsedTime, accumulatedSecondsToday, isLoading,
                   now, db, pending, budget>>

\* -------------------------------------------------- handleEndPractice
\* mutant: every day starts from 1.0, the energy does not compound
PracticeEntry_FromOne(log, day, seconds) ==
    LET totalMinutesToday == Max(1, RoundDiv(seconds, 60))
        growthFactor == calculateGrowthFactor(totalMinutesToday)
        newTotalEnergyToday == DecProduct(100, growthFactor)
    IN  [entry |->
            [day |-> day,
             energy |-> ToFixed2(newTotalEnergyToday),
             practice |-> TRUE,
             minutes |-> totalMinutesToday,
             gain |-> Num(ToFixed2(newTotalEnergyToday) - 100),
             growthFactor |-> Num(growthFactor),
             loss |-> Null],
         energy |-> newTotalEnergyToday]

\* mutant: a day that has an entry already grows from that entry
PracticeEntry_Compounds(log, day, seconds) ==
    LET totalMinutesToday == Max(1, RoundDiv(seconds, 60))
        i == IF FindIndex(log, day) > 0 THEN FindIndex(log, day)
             ELSE FindIndex(log, day - 1)
        startOfDayEnergy == IF i = 0 THEN 100 ELSE log[i].energy
        growthFactor == calculateGrowthFactor(totalMinutesToday)
        newTotalEnergyToday == DecProduct(startOfDayEnergy, growthFactor)
    IN  [entry |->
            [day |-> day,
             energy |-> ToFixed2(newTotalEnergyToday),
             practice |-> TRUE,
             minutes |-> totalMinutesToday,
             gain |-> Num(ToFixed2(newTotalEnergyToday) - startOfDayEnergy),
             growthFactor |-> Num(growthFactor),
             loss |-> Null],
         energy |-> newTotalEnergyToday]

\* the entry handleEndPractice prepares from the render's state
PracticeEntry(log, day, seconds) ==
    LET totalMinutesToday == Max(1, RoundDiv(seconds, 60))
        i == FindIndex(log, day - 1)
        startOfDayEnergy == IF i = 0 THEN 100 ELSE log[i].energy
        growthFactor == calculateGrowthFactor(totalMinutesToday)
        newTotalEnergyToday == DecProduct(startOfDayEnergy, growthFactor)
        \* (newTotalEnergyToday - startOfDayEnergy).toFixed(2)
        totalGainToday ==
            IF newTotalEnergyToday.h >= startOfDayEnergy
            THEN ToFixed2(DecMinus(newTotalEnergyToday,
                                   DecOfHundredths(startOfDayEnergy)))
            ELSE -ToFixed2(DecMinus(DecOfHundredths(startOfDayEnergy),
                                    newTotalEnergyToday))
    IN  [entry |->
            [day |-> day,
             energy |-> ToFixed2(newTotalEnergyToday),
             practice |-> TRUE,
             minutes |-> totalMinutesToday,
             gain |-> Num(totalGainToday),
             growthFactor |-> Num(growthFactor),
             loss |-> Null],
         energy |-> newTotalEnergyToday]

\* mutant: the entry is pushed without looking for one of currentDay
handleEndPractice_AlwaysPushes ==
    /\ isPracticing /\ startTime # 0
    /\ CanAwait
    /\ LET currentIntervalSeconds == now - startTime
           newAccumulatedSeconds ==
               accumulatedSecondsToday + currentIntervalSeconds
           p == PracticeEntry(dailyLog, currentDay, newAccumulatedSeconds)
       IN  /\ intervalRef' = FALSE
           /\ currentEnergy' = p.energy
           /\ elapsedTime' = 0
           /\ accumulatedSecondsToday' = newAccumulatedSeconds
           /\ dailyLog' = Append(dailyLog, p.entry)
           /\ Awaiting("handleEndPractice", <<p.entry>>, <<>>)
    /\ lastResponse' = NoResponse
    /\ UNCHANGED <<currentDay, isPracticing, startTime, isLoading,
                   now, db, failures>>

\* up to the await of the upsert
handleEndPractice ==
    /\ isPracticing /\ startTime # 0
    /\ CanAwait
    /\ LET currentIntervalSeconds == now - startTime
           newAccumulatedSeconds ==
               accumulatedSecondsToday + currentIntervalSeconds
           p == PracticeEntry(dailyLog, currentDay, newAccumulatedSeconds)
           logIndex == FindIndex(dailyLog, currentDay)
       IN  /\ intervalRef' = FALSE
           /\ currentEnergy' = p.energy
           /\ elapsedTime' = 0
           /\ accumulatedSecondsToday' = newAccumulatedSeconds
           /\ dailyLog' = IF logIndex > 0
                          THEN [dailyLog EXCEPT ![logIndex] = p.entry]
                          ELSE Append(dailyLog, p.entry)
           /\ Awaiting("handleEndPractice", <<p.entry>>, <<>>)
    /\ lastResponse' = NoResponse
    /\ UNCHANGED <<currentDay, isPracticing, startTime, isLoading,
                   now, db, failures>>

\* after the await: the error is caught and dropped
handleEndPracticeResume(i, error) ==
    /\ pending[i].op = "handleEndPractice"
    /\ Answers(FALSE, error)
    /\ pending' = RemoveAt(pending, i)
    /\ lastResponse' = Response("handleEndPractice", error, FALSE)
    /\ db' = IF error THEN db ELSE Upsert(db, pending[i].rows)
    /\ isPracticing' = FALSE
    /\ startTime' = 0
    /\ intervalRef' = FALSE
    /\ UNCHANGED <<engine, elapsedTime, accumulatedSecondsToday, isLoading,
                   now>>

\* ------------------------------------------------------ logSkippedDay
\* mutant: the skipped day is counted as a day of 30 minutes of practice
SkipEntry_Grows(day, e) ==
    LET energyLoss == DecTimesTenths(e, dailyEnergyLossTenths)
        newEnergy == DecProduct(ToFixed2(e), calculateGrowthFactor(30))
    IN  [energy |-> newEnergy, loss |-> ToFixed2(energyLoss),
         day |-> day, stored |-> ToFixed2(newEnergy)]

\* mutant: the energy left is the rounded energy of the entry
SkipEntry_KeepsRounded(day, e) ==
    LET energyLoss == DecTimesTenths(e, dailyEnergyLossTenths)
        newEnergy == DecMinus(e, energyLoss)
    IN  [energy |-> DecOfHundredths(ToFixed2(newEnergy)),
         loss |-> ToFixed2(energyLoss),
         day |-> day, stored |-> ToFixed2(newEnergy)]

\* the skip entry for a day entered with energy e, and the energy left
SkipEntry(day, e) ==
    LET energyLoss == DecTimesTenths(e, dailyEnergyLossTenths)
        newEnergy == DecMinus(e, energyLoss)
    IN  [energy |-> newEnergy, loss |-> ToFixed2(energyLoss),
         day |-> day, stored |-> ToFixed2(newEnergy)]

\* up to the await of the insert
logSkippedDay ==
    /\ ~isPracticing
    /\ ~(accumulatedSecondsToday > 0)
    /\ CanAwait
    /\ LET s == SkipEntry(currentDay, currentEnergy)
           skipLogData ==
               [day |-> currentDay, energy |-> s.stored, practice |-> FALSE,
                minutes |-> 0, gain |-> Null, growthFactor |-> Null,
                loss |-> Num(s.loss)]
       IN  /\ dailyLog' = Append(dailyLog, skipLogData)
           /\ currentEnergy' = s.energy
           /\ Awaiting("logSkippedDay", <<skipLogData>>, <<>>)
    /\ lastResponse' = NoResponse
    /\ UNCHANGED <<currentDay, timer, isLoading, now, db, failures>>

\* mutant: the day is counted on from the day of the current render
logSkippedDayResume_LiveDay(i, error) ==
    /\ pending[i].op = "logSkippedDay"
    /\ Answers(InsertRefused(db, pending[i].rows[1]), error)
    /\ pending' = RemoveAt(pending, i)
    /\ lastResponse' = Response("logSkippedDay", error, FALSE)
    /\ db' = IF error THEN db ELSE InsertRow(db, DbRow(pending[i].rows[1]))
    /\ currentDay' = currentDay + 1
    /\ isPracticing' = FALSE
    /\ startTime' = 0
    /\ elapsedTime' = 0
    /\ accumulatedSecondsToday' = 0
    /\ intervalRef' = FALSE
    /\ UNCHANGED <<dailyLog, currentEnergy, isLoading, now>>

\* mutant: the seconds of the day that ends are kept
logSkippedDayResume_KeepsSeconds(i, error) ==
    /\ pending[i].op = "logSkippedDay"
    /\ Answers(InsertRefused(db, pending[i].rows[1]), error)
    /\ pending' = RemoveAt(pending, i)
    /\ lastResponse' = Response("logSkippedDay", error, FALSE)
    /\ db' = IF error THEN db ELSE InsertRow(db, DbRow(pending[i].rows[1]))
    /\ currentDay' = pending[i].closure.currentDay + 1
    /\ isPracticing' = FALSE
    /\ startTime' = 0
    /\ elapsedTime' = 0
    /\ intervalRef' = FALSE
    /\ UNCHANGED <<dailyLog, currentEnergy, isLoading, now,
                   accumulatedSecondsToday>>

\* after the await: the error is caught and dropped, the day advances
logSkippedDayResume(i, error) ==
    /\ pending[i].op = "logSkippedDay"
    /\ Answers(InsertRefused(db, pending[i].rows[1]), error)
    /\ pending' = RemoveAt(pending, i)
    /\ lastResponse' = Response("logSkippedDay", error, FALSE)
    /\ db' = IF error THEN db ELSE InsertRow(db, DbRow(pending[i].rows[1]))
    /\ currentDay' = pending[i].closure.currentDay + 1
    /\ isPracticing' = FALSE
    /\ startTime' = 0
    /\ elapsedTime' = 0
    /\ accumulatedSecondsToday' = 0
    /\ intervalRef' = FALSE
    /\ UNCHANGED <<dailyLog, currentEnergy, isLoading, now>>

\* --------------------------------------------------- advanceToNextDay
advanceToNextDay ==
    /\ ~isPracticing
    /\ LET todayLogExists == currentDay \in Days(dailyLog)
           s == SkipEntry(currentDay, currentEnergy)
           skipLog ==
               [day |-> currentDay, energy |-> s.stored, practice |-> FALSE,
                minutes |-> 0, gain |-> Undefined,
                growthFactor |-> Undefined, loss |-> Num(s.loss)]
       IN  IF ~todayLogExists
           THEN /\ dailyLog' = Append(dailyLog, skipLog)
                /\ currentEnergy' = s.energy
           ELSE UNCHANGED <<dailyLog, currentEnergy>>
    /\ currentDay' = currentDay + 1
    /\ isPracticing' = FALSE
    /\ startTime' = 0
    /\ elapsedTime' = 0
    /\ accumulatedSecondsToday' = 0
    /\ intervalRef' = FALSE
    /\ lastResponse' = NoResponse
    /\ UNCHANGED <<isLoading, now, db, pending, budget>>

\* ---------------------------------------------------- resetSimulation
\* up to the await of the delete, when window.confirm is answered yes
\* the answer "Cancel" to window.confirm
Declined == [op |-> "window.confirm", error |-> FALSE, alerted |-> FALSE]

resetSimulation(confirmed) ==
    IF ~confirmed
    THEN /\ lastResponse' = Declined
         /\ UNCHANGED <<engine, timer, isLoading, now, db, pending, budget>>
    ELSE /\ CanAwait
         /\ isLoading' = TRUE
         /\ Awaiting("resetSimulation", <<>>, <<>>)
         /\ lastResponse' = NoResponse
         /\ UNCHANGED <<engine, timer, now, db, failures>>

\* mutant: the state in memory is cleared whatever the delete answered
resetSimulationResume_ClearsAnyway(i, error) ==
    /\ pending[i].op = "resetSimulation"
    /\ Answers(FALSE, error)
    /\ pending' = RemoveAt(pending, i)
    /\ lastResponse' = Response("resetSimulation", error, error)
    /\ isLoading' = FALSE
    /\ db' = IF error THEN db ELSE <<>>
    /\ dailyLog' = <<>>
    /\ currentDay' = 1
    /\ currentEnergy' = DecOfHundredths(100)
    /\ isPracticing' = FALSE
    /\ startTime' = 0
    /\ elapsedTime' = 0
    /\ accumulatedSecondsToday' = 0
    /\ intervalRef' = FALSE
    /\ UNCHANGED <<now>>

\* after the await
resetSimulationResume(i, error) ==
    /\ pending[i].op = "resetSimulation"
    /\ Answers(FALSE, error)
    /\ pending' = RemoveAt(pending, i)
    /\ lastResponse' = Response("resetSimulation", error, error)
    /\ isLoading' = FALSE
    /\ IF error
       THEN UNCHANGED <<engine, timer, db>>
       ELSE /\ db' = <<>>
            /\ dailyLog' = <<>>
            /\ currentDay' = 1
            /\ currentEnergy' = DecOfHundredths(100)
            /\ isPracticing' = FALSE
            /\ startTime' = 0
            /\ elapsedTime' = 0
            /\ accumulatedSecondsToday' = 0
            /\ intervalRef' = FALSE
    /\ UNCHANGED <<now>>

\* ------------------------------------------- recalculateEnergyFromDay
\* mutant: the gain is reset on both branches of the loop body
RecalculatedEntry_ResetsGain(entry, startEnergyForDay) ==
    IF entry.practice
    THEN LET growthFactor == calculateGrowthFactor(entry.minutes)
             newEnergy == startEnergyForDay * growthFactor
         IN  [entry EXCEPT !.energy = RoundDiv(newEnergy, Million),
                           !.gain = Null,
                           !.growthFactor = Num(growthFactor),
                           !.loss = Null]
    ELSE LET s == SkipEntry(entry.day, DecOfHundredths(startEnergyForDay))
         IN  [entry EXCEPT !.energy = s.stored,
                           !.loss = Num(s.loss),
                           !.gain = Null,
                           !.growthFactor = Null]

\* one pass of the loop body: the entry recomputed from startEnergyForDay
RecalculatedEntry(entry, startEnergyForDay) ==
    IF entry.practice
    THEN LET growthFactor == calculateGrowthFactor(entry.minutes)
             newEnergy == startEnergyForDay * growthFactor
             energyGain == newEnergy - startEnergyForDay * Million
         IN  [entry EXCEPT !.energy = RoundDiv(newEnergy, Million),
                           !.gain = Num(RoundDiv(energyGain, Million)),
                           !.growthFactor = Num(growthFactor),
                           !.loss = Null]
    ELSE LET s == SkipEntry(entry.day, DecOfHundredths(startEnergyForDay))
         IN  [entry EXCEPT !.energy = s.stored,
                           !.loss = Num(s.loss),
                           !.gain = Null,
                           !.growthFactor = Null]

RECURSIVE RecalculateLoop(_, _, _)
\* the for loop from index i, entered with previousDayEnergy
RecalculateLoop(log, i, previousDayEnergy) ==
    IF i > Len(log) THEN log
    ELSE LET currentEntry == RecalculatedEntry(log[i], previousDayEnergy)
         IN  RecalculateLoop([log EXCEPT ![i] = currentEntry], i + 1,
                             currentEntry.energy)

\* mutant: the loop is entered with the energy of the entry at startIndex
\* instead of the one before it
Recalculated_OffByOne(startIndex, logData) ==
    RecalculateLoop(logData, startIndex, logData[startIndex].energy)

\* recalculatedLog for (startIndex, logData); startIndex counts from 1
Recalculated(startIndex, logData) ==
    RecalculateLoop(logData, startIndex,
                    IF startIndex > 1 THEN logData[startIndex - 1].energy
                    ELSE 100)

\* mutant: the entry of the current day is not looked at
EnergyAfterRecalculation_PreviousDay(recalculatedLog, day) ==
    LET last == FindLastBefore(recalculatedLog, day)
    IN  IF last = 0 THEN 100 ELSE recalculatedLog[last].energy

\* the currentEnergy set after a saved recalculation
EnergyAfterRecalculation(recalculatedLog, day) ==
    LET last == FindLastBefore(recalculatedLog, day)
        energyBeforeCurrentDay ==
            IF last = 0 THEN 100 ELSE recalculatedLog[last].energy
        today == FindIndex(recalculatedLog, day)
    IN  IF today > 0 THEN recalculatedLog[today].energy
        ELSE energyBeforeCurrentDay

\* mutant: the recalculated log is stored before the answer is looked at
recalculateEnergyFromDayResume_StoresFirst(i, error) ==
    /\ pending[i].op = "recalculateEnergyFromDay"
    /\ Answers(UpsertRefused(pending[i].rows), error)
    /\ pending' = RemoveAt(pending, i)
    /\ lastResponse' =
           Response("recalculateEnergyFromDay", error, error)
    /\ dailyLog' = pending[i].recalculatedLog
    /\ db' = IF error THEN db ELSE Upsert(db, pending[i].rows)
    /\ currentEnergy' =
           IF error THEN currentEnergy
           ELSE DecOfHundredths(
                    EnergyAfterRecalculation(pending[i].recalculatedLog,
                                             pending[i].closure.currentDay))
    /\ isLoading' = FALSE
    /\ UNCHANGED <<currentDay, timer, now>>

\* after the await of the batch upsert, and the rest of handleEditMinutes
recalculateEnergyFromDayResume(i, error) ==
    /\ pending[i].op = "recalculateEnergyFromDay"
    /\ Answers(UpsertRefused(pending[i].rows), error)
    /\ pending' = RemoveAt(pending, i)
    /\ lastResponse' =
           Response("recalculateEnergyFromDay", error, error)
    /\ IF error
       THEN UNCHANGED <<dailyLog, currentEnergy, db>>
       ELSE /\ db' = Upsert(db, pending[i].rows)
            /\ dailyLog' = pending[i].recalculatedLog
            /\ currentEnergy' =
                   DecOfHundredths(
                       EnergyAfterRecalculation(pending[i].recalculatedLog,
                                                pending[i].closure.currentDay))
    /\ isLoading' = FALSE
    /\ UNCHANGED <<currentDay, timer, now>>

\* -------------------------------------------------- handleEditMinutes
NaN == [t |-> "NaN", v |-> 0]

DigitValue(c) ==
    CASE c = "0" -> 0 [] c = "1" -> 1 [] c = "2" -> 2 [] c = "3" -> 3
      [] c = "4" -> 4 [] c = "5" -> 5 [] c = "6" -> 6 [] c = "7" -> 7
      [] c = "8" -> 8 [] c = "9" -> 9 [] OTHER -> -1

RECURSIVE LeadingDigits(_, _, _)
\* the value of the digits str starts with; NaN when it starts with none
LeadingDigits(str, seen, value) ==
    IF str = <<>> \/ DigitValue(Head(str)) < 0
    THEN IF seen THEN Num(value) ELSE NaN
    ELSE LeadingDigits(Tail(str), TRUE, value * 10 + DigitValue(Head(str)))

\* parseInt(str, 10) of a string of characters
parseInt(str) ==
    IF str # <<>> /\ Head(str) = "-"
    THEN LET n == LeadingDigits(Tail(str), FALSE, 0)
         IN  IF n = NaN THEN NaN ELSE Num(-n.v)
    ELSE IF str # <<>> /\ Head(str) = "+"
    THEN LeadingDigits(Tail(str), FALSE, 0)
    ELSE LeadingDigits(str, FALSE, 0)

\* what the handler writes to the console when it returns early
InvalidMinutes == "Invalid minutes entered:"
DayNotFound == "Edited day not found in log:"
SkippedDay == "Cannot edit minutes for a skipped day."

Console(message) == [op |-> message, error |-> FALSE, alerted |-> FALSE]

\* the console line of the first check that fails, if one writes a line
EditWarning(log, day, newMinutes) ==
    IF newMinutes = NaN \/ newMinutes.v < 0 THEN Console(InvalidMinutes)
    ELSE IF FindIndex(log, day) = 0 THEN Console(DayNotFound)
    ELSE IF ~log[FindIndex(log, day)].practice THEN Console(SkippedDay)
    ELSE NoResponse

\* mutant: the entry found is not asked whether it is a practice entry
EditAccepted_AnyEntry(log, day, newMinutes) ==
    /\ newMinutes # NaN /\ ~(newMinutes.v < 0)
    /\ FindIndex(log, day) # 0
    /\ log[FindIndex(log, day)].minutes # newMinutes.v

\* mutant: the sign of the minutes is not looked at
EditAccepted_NegativeToo(log, day, newMinutes) ==
    /\ newMinutes # NaN
    /\ FindIndex(log, day) # 0
    /\ log[FindIndex(log, day)].practice
    /\ log[FindIndex(log, day)].minutes # newMinutes.v

\* the edit is taken: the checks that return early all pass
EditAccepted(log, day, newMinutes) ==
    /\ newMinutes # NaN /\ ~(newMinutes.v < 0)
    /\ FindIndex(log, day) # 0
    /\ log[FindIndex(log, day)].practice
    /\ log[FindIndex(log, day)].minutes # newMinutes.v

\* mutant: the index is not compared, every practice entry is rewritten
LogCopyWithEdit_EveryRow(log, targetIndex, newMinutes) ==
    [index \in 1..Len(log) |->
        IF log[index].practice
        THEN [log[index] EXCEPT !.minutes = newMinutes]
        ELSE log[index]]

\* dailyLog with the minutes of the entry at targetIndex replaced
LogCopyWithEdit(log, targetIndex, newMinutes) ==
    [index \in 1..Len(log) |->
        IF index = targetIndex
        THEN [log[index] EXCEPT !.minutes = newMinutes]
        ELSE log[index]]

\* up to the await in recalculateEnergyFromDay
handleEditMinutes(day, newMinutesStr) ==
    LET newMinutes == parseInt(newMinutesStr)
        targetIndex == FindIndex(dailyLog, day)
    IN  /\ lastResponse' = EditWarning(dailyLog, day, newMinutes)
        /\ IF ~EditAccepted(dailyLog, day, newMinutes)
           THEN UNCHANGED <<engine, timer, isLoading, now, db, pending,
                            budget>>
           ELSE LET logCopyWithEdit ==
                        LogCopyWithEdit(dailyLog, targetIndex, newMinutes.v)
                    recalculatedLog ==
                        Recalculated(targetIndex, logCopyWithEdit)
                    updatesForSupabase ==
                        SubSeq(recalculatedLog, targetIndex,
                               Len(recalculatedLog))
                IN  /\ CanAwait
                    /\ isLoading' = TRUE
                    /\ Awaiting("recalculateEnergyFromDay",
                                updatesForSupabase, recalculatedLog)
                    /\ UNCHANGED <<engine, timer, now, db, failures>>

\* ------------------------------------------------------ what is shown
\* while isLoading the component renders the loading text alone
hasPracticedToday ==
    \E i \in 1..Len(dailyLog) :
        dailyLog[i].day = currentDay /\ dailyLog[i].practice

\* the strings the minutes input hands to handleEditMinutes
EditInputs == {<<>>, <<"-", "1">>, <<"0">>, <<"3">>}

\* "Start Practice" / "Resume Practice", shown while not practicing
ClickStart ==
    /\ ~isLoading /\ ~isPracticing
    /\ currentDay <= MaxDay
    /\ handleStartPractice

\* "Pause Practice", shown while practicing
ClickPause ==
    /\ ~isLoading /\ isPracticing
    /\ handleEndPractice

\* "Skip Day & Advance", shown until the day has a practice entry and
\* disabled while practicing or after any practice
ClickSkip ==
    /\ ~isLoading /\ ~hasPracticedToday
    /\ ~(isPracticing \/ accumulatedSecondsToday > 0)
    /\ currentDay <= MaxDay
    /\ logSkippedDay

\* "Finish Day & Advance", shown once the day has a practice entry and
\* disabled while practicing
ClickAdvance ==
    /\ ~isLoading /\ hasPracticedToday /\ ~isPracticing
    /\ currentDay <= MaxDay
    /\ advanceToNextDay

\* "Reset Energy Tracker", and the answer to its question
ClickReset ==
    /\ ~isLoading
    /\ \E confirmed \in BOOLEAN : resetSimulation(confirmed)

\* a click on the minutes of a practice row, then Enter or blur in the
\* input the click opened
EditMinutes(day, newMinutesStr) ==
    /\ ~isLoading
    /\ \E i \in 1..Len(dailyLog) :
           dailyLog[i].day = day /\ dailyLog[i].practice
    /\ handleEditMinutes(day, newMinutesStr)

\* ---------------------------------------------------------------- Next
Next ==
    \/ \E i \in DOMAIN pending, error \in BOOLEAN : fetchLog(i, error)
    \/ Reload
    \/ Tick
    \/ ClickStart
    \/ ClickPause
    \/ \E i \in DOMAIN pending, error \in BOOLEAN :
           handleEndPracticeResume(i, error)
    \/ ClickSkip
    \/ \E i \in DOMAIN pending, error \in BOOLEAN :
           logSkippedDayResume(i, error)
    \/ ClickAdvance
    \/ ClickReset
    \/ \E i \in DOMAIN pending, error \in BOOLEAN :
           resetSimulationResume(i, error)
    \/ \E day \in 1..MaxDay, str \in EditInputs : EditMinutes(day, str)
    \/ \E i \in DOMAIN pending, error \in BOOLEAN :
           recalculateEnergyFromDayResume(i, error)

Spec == Init /\ [][Next]_vars

\* ------------------------------------------------------ handler calls
\* the first entry of the day, if there is one, is a skip entry
NoPracticeRow(log, day) ==
    IF FindIndex(log, day) = 0 THEN TRUE
    ELSE ~log[FindIndex(log, day)].practice

\* handleEditMinutes called for a day whose row shows no minutes input: a
\* day without an entry, or with a skip entry.  No element of the page
\* makes this call; it is the handler taken as a function of its
\* arguments.
CallEditMinutes(day, newMinutesStr) ==
    /\ NoPracticeRow(dailyLog, day)
    /\ handleEditMinutes(day, newMinutesStr)

NextCalls ==
    \/ Next
    \/ \E day \in 1..MaxDay, str \in EditInputs :
           CallEditMinutes(day, str)

SpecCalls == Init /\ [][NextCalls]_vars

\* ------------------------------------------------- the engine alone
\* The computations of the engine applied to a log of one day, with the
\* minutes drawn from 0..MaxMinutes: no timer and no store.
InitLoaded ==
    /\ dailyLog = <<>>
    /\ currentDay = 1
    /\ currentEnergy = DecOfHundredths(100)
    /\ isPracticing = FALSE
    /\ startTime = 0
    /\ elapsedTime = 0
    /\ accumulatedSecondsToday = 0
    /\ intervalRef = FALSE
    /\ isLoading = FALSE
    /\ now = 1
    /\ db = <<>>
    /\ failures = 0
    /\ overlaps = 0
    /\ pending = <<>>
    /\ lastResponse = Response("fetchLog", FALSE, FALSE)

\* what handleEndPractice computes and stores for a practice of the given
\* whole minutes on currentDay
PracticeOf(minutes) ==
    /\ minutes >= 1
    /\ LET p == PracticeEntry(dailyLog, currentDay, minutes * 60)
           logIndex == FindIndex(dailyLog, currentDay)
       IN  /\ currentEnergy' = p.energy
           /\ dailyLog' = IF logIndex > 0
                          THEN [dailyLog EXCEPT ![logIndex] = p.entry]
                          ELSE Append(dailyLog, p.entry)
    /\ UNCHANGED <<currentDay, timer, isLoading, now, db, pending, budget,
                   lastResponse>>

\* what handleEditMinutes and recalculateEnergyFromDay compute and store
\* for an edit of the entry of day 1 to the given minutes
EditOf(minutes) ==
    /\ FindIndex(dailyLog, 1) > 0
    /\ dailyLog[FindIndex(dailyLog, 1)].minutes # minutes
    /\ LET targetIndex == FindIndex(dailyLog, 1)
           recalculatedLog ==
               Recalculated(targetIndex,
                            LogCopyWithEdit(dailyLog, targetIndex, minutes))
       IN  /\ dailyLog' = recalculatedLog
           /\ currentEnergy' =
                  DecOfHundredths(
                      EnergyAfterRecalculation(recalculatedLog, currentDay))
    /\ UNCHANGED <<currentDay, timer, isLoading, now, db, pending, budget,
                   lastResponse>>

\* what logSkippedDay computes and stores, the day advanced as after its
\* insert
SkipOf ==
    /\ ~hasPracticedToday
    /\ LET s == SkipEntry(currentDay, currentEnergy)
           skipLogData ==
               [day |-> currentDay, energy |-> s.stored, practice |-> FALSE,
                minutes |-> 0, gain |-> Null, growthFactor |-> Null,
                loss |-> Num(s.loss)]
       IN  /\ dailyLog' = Append(dailyLog, skipLogData)
           /\ currentEnergy' = s.energy
    /\ currentDay' = currentDay + 1
    /\ UNCHANGED <<timer, isLoading, now, db, pending, budget,
                   lastResponse>>

\* "Finish Day & Advance" on a day with practice
FinishDay ==
    /\ hasPracticedToday
    /\ advanceToNextDay

NextEngine ==
    \/ \E minutes \in 1..MaxMinutes : PracticeOf(minutes)
    \/ \E minutes \in 0..MaxMinutes : EditOf(minutes)

SpecEngine == InitLoaded /\ [][NextEngine]_vars

\* the engine over the days 1..MaxDay, for a few numbers of minutes
ExampleMinutes == {1, 3, 30, 40, 120}

NextExample ==
    \/ \E minutes \in ExampleMinutes :
           currentDay <= MaxDay /\ PracticeOf(minutes)
    \/ \E minutes \in ExampleMinutes \cup {0} : EditOf(minutes)
    \/ currentDay <= MaxDay /\ SkipOf
    \/ currentDay < MaxDay /\ FinishDay

SpecExample == InitLoaded /\ [][NextExample]_vars

\* ------------------------------------------------------ the regimens
\* The tracker driven through a regimen: the same minutes of practice
\* every day, each day logged and then finished, for the days the
\* growth factor was tuned for.
RegimenDays(minutes) == IF minutes = 40 THEN 90 ELSE 30

RegimenPractice(minutes) ==
    /\ ~hasPracticedToday
    /\ dailyLog # <<>> => dailyLog[1].minutes = minutes
    /\ currentDay <= RegimenDays(minutes)
    /\ PracticeOf(minutes)

RegimenAdvance ==
    /\ hasPracticedToday
    /\ currentDay < RegimenDays(dailyLog[1].minutes)
    /\ advanceToNextDay

NextRegimen ==
    \/ \E minutes \in {40, 120} : RegimenPractice(minutes)
    \/ RegimenAdvance

SpecRegimen == InitLoaded /\ [][NextRegimen]_vars

\* ------------------------------------------------------- the recovery
\* Days skipped before any practice, then 40 minutes of practice every
\* day, each day logged and then finished.
Skipped == Cardinality({i \in 1..Len(dailyLog) : ~dailyLog[i].practice})

RecoverySkip ==
    /\ Skipped = Len(dailyLog)
    /\ Skipped < MaxSkips
    /\ SkipOf

\* the day has no practice yet and is one of the days of the recovery
CanPractise == ~hasPracticedToday /\ currentDay <= Skipped + RecoveryDays

RecoveryPractice ==
    /\ CanPractise
    /\ PracticeOf(40)

RecoveryAdvance ==
    /\ hasPracticedToday
    /\ currentDay < Skipped + RecoveryDays
    /\ advanceToNextDay

NextRecovery ==
    \/ RecoverySkip
    \/ RecoveryPractice
    \/ RecoveryAdvance

\* The user goes on: a day that can be finished is finished, and a day
\* that can be practised is practised in the end.  RecoveryPractice is
\* enabled exactly where CanPractise holds and leaves it false, so its weak
\* fairness, WF_vars(RecoveryPractice), is []<>~CanPractise; it is written
\* in that form, which asks for no evaluation of ENABLED over the whole
\* computation of the entry.
SpecRecovery ==
    /\ InitLoaded /\ [][NextRecovery]_vars
    /\ WF_vars(RecoveryAdvance)
    /\ []<>~CanPractise

\* -------------------------------------------------- the first version
\* useState(false) of the first version, kept in isPracticing
didPracticeToday == isPracticing

\* what the first version does not have
unused == <<startTime, elapsedTime, accumulatedSecondsToday, intervalRef,
            isLoading, now, db, pending, failures, overlaps, lastResponse>>

InitFirst == InitLoaded /\ ~didPracticeToday

\* x * factor (millionths), exact, for an exact decimal x
DecTimes(x, factor) ==
    LET m == TimesDigit(x.d, factor)
        a == x.h * (factor \div 1000)
        b == (a % 1000) * 1000 + x.h * (factor % 1000) + m[1]
    IN  [h |-> (a \div 1000) + (b \div Million),
         d |-> Strip(DigitsOf(b % Million, 6) \o m[2])]

\* the entry logPracticeDay appends, and the energy it sets
PracticeDayEntry(day, e, practiceMinutes) ==
    LET growthFactor == calculateGrowthFactor(practiceMinutes)
        newEnergy == DecTimes(e, growthFactor)
        energyGain == IF growthFactor >= Million
                      THEN ToFixed2(DecMinus(newEnergy, e))
                      ELSE -ToFixed2(DecMinus(e, newEnergy))
    IN  [entry |->
            [day |-> day,
             energy |-> ToFixed2(newEnergy),
             practice |-> TRUE,
             minutes |-> practiceMinutes,
             gain |-> Num(energyGain),
             growthFactor |-> Num(growthFactor),
             loss |-> Undefined],
         energy |-> newEnergy]

\* mutant: the day is logged again although it has been logged
logPracticeDay_Unguarded(practiceMinutes) ==
    LET p == PracticeDayEntry(currentDay, currentEnergy, practiceMinutes)
    IN  /\ dailyLog' = Append(dailyLog, p.entry)
        /\ currentEnergy' = p.energy
        /\ currentDay' = currentDay + 1
        /\ isPracticing' = TRUE
        /\ UNCHANGED unused

logPracticeDay(practiceMinutes) ==
    IF didPracticeToday THEN UNCHANGED vars
    ELSE LET p == PracticeDayEntry(currentDay, currentEnergy,
                                   practiceMinutes)
         IN  /\ dailyLog' = Append(dailyLog, p.entry)
             /\ currentEnergy' = p.energy
             /\ currentDay' = currentDay + 1
             /\ isPracticing' = TRUE
             /\ UNCHANGED unused

\* logSkippedDay of the first version
logSkippedDayFirst ==
    IF didPracticeToday THEN UNCHANGED vars
    ELSE LET s == SkipEntry(currentDay, currentEnergy)
         IN  /\ dailyLog' =
                    Append(dailyLog,
                           [day |-> currentDay, energy |-> s.stored,
                            practice |-> FALSE, minutes |-> 0,
                            gain |-> Undefined, growthFactor |-> Undefined,
                            loss |-> Num(s.loss)])
             /\ currentEnergy' = s.energy
             /\ currentDay' = currentDay + 1
             /\ isPracticing' = TRUE
             /\ UNCHANGED unused

nextDay ==
    /\ isPracticing' = FALSE
    /\ UNCHANGED <<dailyLog, currentDay, currentEnergy>>
    /\ UNCHANGED unused

\* resetSimulation of the first version
resetSimulationFirst ==
    /\ dailyLog' = <<>>
    /\ currentDay' = 1
    /\ currentEnergy' = DecOfHundredths(100)
    /\ isPracticing' = FALSE
    /\ UNCHANGED unused

\* the minutes the slider and the quick-select buttons are set to
FirstMinutes == {1, 40, 120}

NextFirst ==
    \/ \E practiceMinutes \in FirstMinutes :
           currentDay <= FirstDays /\ logPracticeDay(practiceMinutes)
    \/ currentDay <= FirstDays /\ logSkippedDayFirst
    \/ nextDay
    \/ resetSimulationFirst

SpecFirst == InitFirst /\ [][NextFirst]_vars

\* ========================================================= properties
\* the energy the transition of an entry yields from the stored energy
\* prev of its predecessor, rounded to 2 decimals
TransitionFrom(prev, entry) ==
    IF entry.practice
    THEN RoundDiv(prev * calculateGrowthFactor(entry.minutes), Million)
    ELSE RoundDiv(prev * 9, 10)

\* C1: in every reachable state every entry but the first stores the
\* energy its transition yields from the stored energy of the entry
\* before it: round2(prev.energy * growthFactor(minutes)) for a practice
\* entry, round2(prev.energy * 0.9) for a skip entry.
C1_EnergyFollowsPreviousEntry ==
    \A i \in 2..Len(dailyLog) :
        dailyLog[i].energy = TransitionFrom(dailyLog[i - 1].energy, dailyLog[i])

\* C2: once every operation has completed (no handler waits for an
\* answer), currentEnergy is the energy of the last entry of the log, or
\* 1.0 when the log is empty.
C2_CurrentEnergyIsLastEntry ==
    pending = <<>> =>
        currentEnergy =
            DecOfHundredths(IF dailyLog = <<>> THEN 100
                            ELSE dailyLog[Len(dailyLog)].energy)

\* C3: in every reachable state the day numbers of the log are strictly
\* increasing in log order, so no day has two entries.
C3_DaysStrictlyIncreasing ==
    \A i \in 2..Len(dailyLog) : dailyLog[i - 1].day < dailyLog[i].day

\* a step in which the handler pending[i] resumes with the answer error
Resumes(i, op, error) ==
    /\ pending[i].op = op
    /\ pending' = RemoveAt(pending, i)
    /\ lastResponse'.op = op
    /\ lastResponse'.error = error

MutatingOps ==
    {"handleEndPractice", "logSkippedDay", "resetSimulation",
     "recalculateEnergyFromDay"}

\* C4: when the persistence call of a mutating operation fails, dailyLog,
\* currentEnergy and currentDay are what they were when the operation
\* started, and the failure is reported to the user.
C4_FailureRestoresState ==
    [][\A i \in DOMAIN pending, op \in MutatingOps :
          Resumes(i, op, TRUE) =>
              /\ dailyLog' = pending[i].closure.dailyLog
              /\ currentEnergy' = pending[i].closure.currentEnergy
              /\ currentDay' = pending[i].closure.currentDay
              /\ lastResponse'.alerted]_vars

\* ------------------------------------------------------- edits
Recalculation == "recalculateEnergyFromDay"

\* the index of the edited entry, for the recalculation pending[i]
EditedIndex(i) == Len(pending[i].recalculatedLog) - Len(pending[i].rows) + 1

RowsOf(rows) == {rows[j] : j \in 1..Len(rows)}

\* C5: an edit is atomic.  When the batch upsert fails, dailyLog and
\* currentEnergy stay what they were when the edit started; when it
\* succeeds, the entries from the edited one to the end of the log are
\* exactly the entries sent in that upsert, which are then the stored rows
\* of their days.
C5_EditIsAtomic ==
    [][\A i \in DOMAIN pending :
          /\ Resumes(i, Recalculation, TRUE) =>
                 /\ dailyLog' = dailyLog
                 /\ currentEnergy' = currentEnergy
                 /\ dailyLog' = pending[i].closure.dailyLog
                 /\ currentEnergy' = pending[i].closure.currentEnergy
                 /\ db' = db
          /\ Resumes(i, Recalculation, FALSE) =>
                 /\ Len(dailyLog') = Len(dailyLog)
                 /\ SubSeq(dailyLog', EditedIndex(i), Len(dailyLog'))
                        = pending[i].rows
                 /\ \A j \in EditedIndex(i)..Len(dailyLog') :
                        DbRow(dailyLog'[j]) \in RowsOf(db')]_vars

\* C5 witness: a recalculation was refused its upsert, with a log in memory
C5_Witness ==
    /\ lastResponse.op = Recalculation
    /\ lastResponse.error
    /\ dailyLog # <<>>

\* C6: a saved edit of the entry at index k leaves the entries before k as
\* they were and keeps the length of the log, every day number, every
\* practice flag and the minutes of every entry but k.
C6_EditKeepsFrame ==
    [][\A i \in DOMAIN pending :
          Resumes(i, Recalculation, FALSE) =>
              /\ Len(dailyLog') = Len(dailyLog)
              /\ \A j \in 1..Len(dailyLog) :
                     /\ j < EditedIndex(i) => dailyLog'[j] = dailyLog[j]
                     /\ dailyLog'[j].day = dailyLog[j].day
                     /\ dailyLog'[j].practice = dailyLog[j].practice
                     /\ j # EditedIndex(i) =>
                            dailyLog'[j].minutes = dailyLog[j].minutes]_vars

\* C6 witness: an edit was saved in a log of two practice entries with
\* different minutes
C6_Witness ==
    /\ lastResponse.op = Recalculation
    /\ ~lastResponse.error
    /\ Len(dailyLog) >= 2
    /\ dailyLog[1].practice /\ dailyLog[2].practice
    /\ dailyLog[1].minutes # dailyLog[2].minutes

\* C7 as stated: a saved edit that changes the minutes of the entry at k
\* changes the stored energy of every entry from k to the end of the log.
C7_EditChangesEveryEnergy ==
    [][\A i \in DOMAIN pending :
          Resumes(i, Recalculation, FALSE) =>
              \A j \in EditedIndex(i)..Len(dailyLog) :
                  dailyLog'[j].energy # dailyLog[j].energy]_vars

\* C7 as amended: a saved edit that changes the minutes of the entry at k
\* changes the minutes and the growthFactor stored for that entry (the
\* stored energies, rounded to 2 decimals, may stay what they were).
C7_EditChangesGrowthFactor ==
    [][\A i \in DOMAIN pending :
          Resumes(i, Recalculation, FALSE) =>
              /\ dailyLog'[EditedIndex(i)].minutes
                     # dailyLog[EditedIndex(i)].minutes
              /\ dailyLog'[EditedIndex(i)].growthFactor
                     # dailyLog[EditedIndex(i)].growthFactor]_vars

\* C7 witness: an edit to 0 minutes was saved and left the energy of the
\* entry at 1.00
C7_Witness ==
    /\ lastResponse.op = Recalculation
    /\ ~lastResponse.error
    /\ \E j \in 1..Len(dailyLog) :
           /\ dailyLog[j].practice
           /\ dailyLog[j].minutes = 0
           /\ dailyLog[j].energy = 100

\* the fields C8 compares
Computed(entry) ==
    [energy |-> entry.energy,
     change |-> IF entry.practice THEN entry.gain ELSE entry.loss,
     growthFactor |-> DbRow(entry).growthFactor]

\* C8: recalculating a log the append handlers wrote, from any index and
\* with no minutes changed, leaves the energy, the gain or loss and the
\* growthFactor of every entry as stored.  (A log none of whose rows has
\* reached the store was written by the append handlers alone: a
\* recalculation takes effect only together with its upsert, and a load
\* copies the store.)
C8_RecalculationIsIdempotent ==
    db = <<>> =>
        \A startIndex \in 1..Len(dailyLog) :
            \A j \in 1..Len(dailyLog) :
                Computed(Recalculated(startIndex, dailyLog)[j])
                    = Computed(dailyLog[j])

\* C9: after a saved edit of the entry at k to newMinutes, every entry
\* from k on holds the transition of its own minutes and kind applied to
\* the energy now stored in the entry before it (1.0 before the first):
\* energy = round2(start * factor), gain = round2(start * factor - start)
\* for practice; energy = round2(start * 0.9), loss = round2(start * 0.1)
\* for a skip.
C9_SuffixIsRecomputed ==
    [][\A i \in DOMAIN pending :
          Resumes(i, Recalculation, FALSE) =>
              /\ dailyLog'[EditedIndex(i)].minutes
                     = pending[i].rows[1].minutes
              /\ \A j \in EditedIndex(i)..Len(dailyLog') :
                     LET start == IF j = 1 THEN 100
                                  ELSE dailyLog'[j - 1].energy
                         e == dailyLog'[j]
                         product == start * (baseValue
                                             + e.minutes * minuteMultiplier)
                     IN  IF e.practice
                         THEN /\ e.energy = RoundDiv(product, Million)
                              /\ e.gain = Num(RoundDiv(product
                                                       - start * Million,
                                                       Million))
                         ELSE /\ e.energy = RoundDiv(start * 9, 10)
                              /\ e.loss = Num(RoundDiv(start, 10))]_vars

\* C9 witness: an edit of the first entry to 0 minutes was saved, and a
\* skip entry follows it
C9_Witness ==
    /\ lastResponse.op = Recalculation
    /\ ~lastResponse.error
    /\ Len(dailyLog) >= 2
    /\ dailyLog[1].practice /\ dailyLog[1].minutes = 0
    /\ ~dailyLog[2].practice

\* C10 as stated: after a saved recalculation currentEnergy is the energy
\* of the entry for day currentDay - 1 when the log has one, and 1.0
\* otherwise.
C10_EnergyOfPreviousDay ==
    [][\A i \in DOMAIN pending :
          Resumes(i, Recalculation, FALSE) =>
              IF currentDay' - 1 \in Days(dailyLog')
              THEN \E j \in 1..Len(dailyLog') :
                       /\ dailyLog'[j].day = currentDay' - 1
                       /\ currentEnergy' = DecOfHundredths(dailyLog'[j].energy)
              ELSE currentEnergy' = DecOfHundredths(100)]_vars

\* C10 as amended: after a saved recalculation currentEnergy is the energy
\* of the entry for the day the handler saw as currentDay when the log has
\* one, otherwise the energy of the last entry of an earlier day, and 1.0
\* when there is neither.
C10_EnergyOfCurrentDayFirst ==
    [][\A i \in DOMAIN pending :
          Resumes(i, Recalculation, FALSE) =>
              LET day == pending[i].closure.currentDay
                  today == {j \in 1..Len(dailyLog') : dailyLog'[j].day = day}
                  before == {j \in 1..Len(dailyLog') : dailyLog'[j].day < day}
              IN  IF today # {}
                  THEN \E j \in today :
                           /\ \A k \in today : j <= k
                           /\ currentEnergy'
                                  = DecOfHundredths(dailyLog'[j].energy)
                  ELSE IF before # {}
                  THEN \E j \in before :
                           /\ \A k \in before : k <= j
                           /\ currentEnergy'
                                  = DecOfHundredths(dailyLog'[j].energy)
                  ELSE currentEnergy' = DecOfHundredths(100)]_vars

\* C10 witness: a recalculation was saved while the current day has an
\* entry, and currentEnergy is not 1.0
C10_Witness ==
    /\ lastResponse.op = Recalculation
    /\ ~lastResponse.error
    /\ currentDay \in Days(dailyLog)
    /\ currentEnergy # DecOfHundredths(100)

\* ------------------------------------------------- edits turned down
\* C11: handleEditMinutes called for a day whose entry is a skip entry,
\* or for a day without an entry, leaves dailyLog, currentEnergy and
\* currentDay as they are and makes no persistence call (no handler
\* starts to wait, the store is untouched).  Such a call is the one that
\* ends with the console line of the day not found or of the skipped day.
C11_EditOffPracticeRowChangesNothing ==
    [][lastResponse' \in {Console(DayNotFound), Console(SkippedDay)}
          => UNCHANGED <<dailyLog, currentEnergy, currentDay, db, pending,
                         isLoading>>]_vars

\* C11 witness: the handler was called with valid minutes for the day of
\* a skip entry and returned with its console line
C11_Witness ==
    /\ lastResponse = Console(SkippedDay)
    /\ \E i \in 1..Len(dailyLog) : ~dailyLog[i].practice

\* C12: handleEditMinutes called with minutes that are negative or not a
\* number returns at once (with its console line) and leaves dailyLog,
\* currentEnergy and currentDay as they are, with no persistence call;
\* and the minutes an edit hands to the recalculation and stores in the
\* entry are a non-negative integer.
C12_InvalidMinutesChangeNothing ==
    [][/\ lastResponse' = Console(InvalidMinutes)
           => UNCHANGED <<dailyLog, currentEnergy, currentDay, db,
                          pending, isLoading>>
       /\ \A i \in DOMAIN pending' :
              pending'[i].op = Recalculation
                  => pending'[i].rows[1].minutes \in Nat
       /\ \A i \in DOMAIN pending :
              Resumes(i, Recalculation, FALSE)
                  => dailyLog'[EditedIndex(i)].minutes \in Nat]_vars

\* C12 witness: the minutes input of a practice row was submitted with
\* text that is no valid number of minutes, and the handler returned
C12_Witness ==
    /\ lastResponse = Console(InvalidMinutes)
    /\ \E i \in 1..Len(dailyLog) : dailyLog[i].practice

\* ------------------------------------------------------ frame effects
\* a step in which handler op runs up to its await
Starts(op) ==
    /\ Len(pending') = Len(pending) + 1
    /\ pending'[Len(pending')].op = op

\* C13: handleEndPractice puts its entry in the place of the (first)
\* entry for currentDay when the log has one, and otherwise appends it at
\* the end; every entry for another day stays as it is and the log grows
\* by at most one entry.
C13_PracticeReplacesOrAppends ==
    [][Starts("handleEndPractice") =>
          LET logIndex == FindIndex(dailyLog, currentDay)
              logEntryData == pending'[Len(pending')].rows[1]
          IN  /\ logEntryData.day = currentDay /\ logEntryData.practice
              /\ IF logIndex > 0
                 THEN dailyLog' = [dailyLog EXCEPT ![logIndex] = logEntryData]
                 ELSE dailyLog' = Append(dailyLog, logEntryData)
              /\ Len(dailyLog') <= Len(dailyLog) + 1
              /\ \A j \in 1..Len(dailyLog) :
                     dailyLog[j].day # currentDay
                         => dailyLog'[j] = dailyLog[j]]_vars

\* C13 witness: practice was logged twice for one day and the second
\* entry took the place of the first
C13_Witness ==
    /\ Len(pending) = 2
    /\ pending[1].op = "handleEndPractice"
    /\ pending[2].op = "handleEndPractice"
    /\ pending[1].rows[1].day = pending[2].rows[1].day
    /\ pending[1].rows[1] # pending[2].rows[1]
    /\ dailyLog = <<pending[2].rows[1]>>

\* a step of reset or of the load of the log, which set currentDay anew
SetsDayAnew ==
    \/ Reload
    \/ \E i \in DOMAIN pending, error \in BOOLEAN :
           \/ Resumes(i, "fetchLog", error)
           \/ Resumes(i, "resetSimulation", error)

\* C14 as stated: currentDay changes in advanceToNextDay alone, and there
\* by exactly +1; logging practice, logging a skip and editing a past day
\* leave it as it is (reset and the load of the log aside).
C14_OnlyAdvanceChangesDay ==
    [][currentDay' # currentDay =>
          \/ advanceToNextDay /\ currentDay' = currentDay + 1
          \/ SetsDayAnew]_vars

\* C14 as amended: currentDay changes in advanceToNextDay, by exactly +1,
\* and when logSkippedDay comes back from its insert, where it becomes
\* the day of the skip entry it logged plus one; logging practice and
\* editing a past day leave it as it is (reset and the load of the log
\* aside).
C14_AdvanceAndSkipChangeDay ==
    [][/\ currentDay' # currentDay =>
              \/ advanceToNextDay /\ currentDay' = currentDay + 1
              \/ \E i \in DOMAIN pending, error \in BOOLEAN :
                     /\ Resumes(i, "logSkippedDay", error)
                     /\ currentDay' = pending[i].rows[1].day + 1
              \/ SetsDayAnew
       /\ \A i \in DOMAIN pending, error \in BOOLEAN :
              Resumes(i, "logSkippedDay", error)
                  => currentDay' = pending[i].rows[1].day + 1
       /\ \A op \in {"handleEndPractice", "logSkippedDay", Recalculation} :
              Starts(op) => currentDay' = currentDay
       /\ \A i \in DOMAIN pending, error \in BOOLEAN :
              \/ Resumes(i, "handleEndPractice", error)
              \/ Resumes(i, Recalculation, error)
              => currentDay' = currentDay]_vars

\* C14 witness: a skip of day 1 came back from its insert and the current
\* day is 2
C14_Witness ==
    /\ lastResponse.op = "logSkippedDay"
    /\ currentDay = 2
    /\ Len(dailyLog) = 1
    /\ dailyLog[1].day = 1 /\ ~dailyLog[1].practice

\* -------------------------------------------------------- days passed
\* the indexes of the entries of day d
EntriesOf(log, d) == {i \in 1..Len(log) : log[i].day = d}

\* C15: advanceToNextDay gives currentDay a skip entry before it goes on
\* when the day has none, so that in every state reached from the empty
\* log every day in 1..currentDay-1 has exactly one entry.
C15_EveryPastDayHasOneEntry ==
    \A d \in 1..(currentDay - 1) :
        Cardinality(EntriesOf(dailyLog, d)) = 1

\* ------------------------------------------------------------- skips
\* C16: logSkippedDay, called with currentEnergy = E, appends an entry
\* for currentDay with practice = false, minutes = 0,
\* loss = round2(E * 0.1) and energy = round2(E * 0.9), and sets
\* currentEnergy to E * 0.9 (unrounded).  E is the energy the day before
\* ended with: 1.0 when the log is empty, and, in a log with one entry a
\* day that ends with the entry of day currentDay - 1, a value that
\* rounds to the stored energy of that entry.
C16_SkipTransition ==
    [][Starts("logSkippedDay") =>
          LET E == currentEnergy
              skipLogData == pending'[Len(pending')].rows[1]
          IN  /\ skipLogData.day = currentDay
              /\ ~skipLogData.practice
              /\ skipLogData.minutes = 0
              /\ skipLogData.loss = Num(ToFixed2(DecTimesTenths(E, 1)))
              /\ skipLogData.energy = ToFixed2(DecTimesTenths(E, 9))
              /\ currentEnergy' = DecTimesTenths(E, 9)
              /\ dailyLog' = Append(dailyLog, skipLogData)
              /\ dailyLog = <<>> => E = DecOfHundredths(100)
              /\ (/\ dailyLog # <<>>
                  /\ C3_DaysStrictlyIncreasing
                  /\ dailyLog[Len(dailyLog)].day = currentDay - 1)
                     => ToFixed2(E) = dailyLog[Len(dailyLog)].energy]_vars

\* C16 witness: a skip was logged after a day of practice, from an energy
\* with more than two decimals
C16_Witness ==
    /\ Len(dailyLog) = 2
    /\ dailyLog[1].practice /\ dailyLog[1].day = 1
    /\ ~dailyLog[2].practice /\ dailyLog[2].day = 2
    /\ pending # <<>>
    /\ pending[Len(pending)].op = "logSkippedDay"
    /\ currentEnergy.d # <<>>

\* C17: when logSkippedDay runs for a currentDay that already has an
\* entry (it is called again before the day has advanced), its entry
\* takes the place of that entry and the log does not grow.
C17_SkipReplacesEntryOfDay ==
    [][(Starts("logSkippedDay") /\ FindIndex(dailyLog, currentDay) > 0) =>
          /\ Len(dailyLog') = Len(dailyLog)
          /\ dailyLog' =
                 [dailyLog EXCEPT ![FindIndex(dailyLog, currentDay)] =
                      pending'[Len(pending')].rows[1]]]_vars

\* ---------------------------------------------------- growth and decay
\* the stored energy an entry follows: of the entry before it, or 1.0
EnergyBefore(log, i) == IF i = 1 THEN 100 ELSE log[i - 1].energy

\* C18 as stated: a practice entry with a growth factor above 1 stores
\* more energy than the entry before it (than 1.0 when it is the first),
\* and a skip entry after a positive energy stores less than the entry
\* before it.
C18_GrowsAndDecaysStrictly ==
    \A i \in 1..Len(dailyLog) :
        IF dailyLog[i].practice
        THEN calculateGrowthFactor(dailyLog[i].minutes) > Million
                 => dailyLog[i].energy > EnergyBefore(dailyLog, i)
        ELSE EnergyBefore(dailyLog, i) > 0
                 => dailyLog[i].energy < EnergyBefore(dailyLog, i)

\* C18 as amended: an entry never moves against its kind from the energy
\* it is computed from.  A practice entry written by handleEndPractice
\* with a growth factor above 1 stores no less than the stored energy of
\* the entry for the day before (1.0 without one); a skip entry written
\* by logSkippedDay stores no more than currentEnergy rounded to 2
\* decimals; and after a saved recalculation each recomputed practice
\* entry with a growth factor above 1 stores no less, and each recomputed
\* skip entry no more, than the entry before it (1.0 for the first).
\* The stored energies are rounded to 2 decimals, so a change below 0.005
\* leaves them equal.
C18_GrowsAndDecays ==
    [][/\ Starts("handleEndPractice") =>
              LET e == pending'[Len(pending')].rows[1]
                  i == FindIndex(dailyLog, currentDay - 1)
                  startOfDayEnergy == IF i = 0 THEN 100
                                      ELSE dailyLog[i].energy
              IN  calculateGrowthFactor(e.minutes) > Million
                      => e.energy >= startOfDayEnergy
       /\ Starts("logSkippedDay") =>
              pending'[Len(pending')].rows[1].energy
                  <= ToFixed2(currentEnergy)
       /\ \A i \in DOMAIN pending :
              Resumes(i, Recalculation, FALSE) =>
                  \A j \in EditedIndex(i)..Len(dailyLog') :
                      IF dailyLog'[j].practice
                      THEN calculateGrowthFactor(dailyLog'[j].minutes)
                               > Million
                               => dailyLog'[j].energy
                                      >= EnergyBefore(dailyLog', j)
                      ELSE dailyLog'[j].energy
                               <= EnergyBefore(dailyLog', j)]_vars

\* C18 witness: a practice entry of 3 minutes (growth factor 1.00003)
\* stores the energy of the entry before it
C18_Witness ==
    \E i \in 1..Len(dailyLog) :
        /\ dailyLog[i].practice
        /\ dailyLog[i].minutes = 3
        /\ dailyLog[i].energy = EnergyBefore(dailyLog, i)

\* ---------------------------------------------------- growth factor
\* C19: for every number of minutes m from 0 on,
\* calculateGrowthFactor(m) = 0.995776 + m * 0.001418 (in millionths
\* 995776 + 1418 * m), and every practice entry stores exactly this value
\* for its own minutes as its growthFactor.
C19_GrowthFactorIsLinear ==
    /\ \A m \in 0..MaxMinutes :
           calculateGrowthFactor(m) = 995776 + 1418 * m
    /\ \A i \in 1..Len(dailyLog) :
           dailyLog[i].practice =>
               dailyLog[i].growthFactor
                   = Num(995776 + 1418 * dailyLog[i].minutes)

\* C19 witness: a practice entry of 40 minutes with its growth factor
C19_Witness ==
    \E i \in 1..Len(dailyLog) :
        /\ dailyLog[i].practice
        /\ dailyLog[i].minutes = 40
        /\ dailyLog[i].growthFactor = Num(1052496)

\* the growth factor the log stores for a practice of m minutes is f
StoresFactor(m, f) ==
    \A i \in 1..Len(dailyLog) :
        (dailyLog[i].practice /\ dailyLog[i].minutes = m)
            => dailyLog[i].growthFactor = Num(f)

\* C20 as stated: to six decimals calculateGrowthFactor(0) = 0.995776,
\* calculateGrowthFactor(40) = 1.052496 and
\* calculateGrowthFactor(120) = 1.166936.
C20_GrowthFactorExamples ==
    /\ calculateGrowthFactor(0) = 995776 /\ StoresFactor(0, 995776)
    /\ calculateGrowthFactor(40) = 1052496 /\ StoresFactor(40, 1052496)
    /\ calculateGrowthFactor(120) = 1166936 /\ StoresFactor(120, 1166936)

\* C20 as amended: to six decimals calculateGrowthFactor(0) = 0.995776,
\* calculateGrowthFactor(40) = 1.052496 and
\* calculateGrowthFactor(120) = 1.165936.
C20_GrowthFactorValues ==
    /\ calculateGrowthFactor(0) = 995776 /\ StoresFactor(0, 995776)
    /\ calculateGrowthFactor(40) = 1052496 /\ StoresFactor(40, 1052496)
    /\ calculateGrowthFactor(120) = 1165936 /\ StoresFactor(120, 1165936)

\* C20 witness: a practice entry of 120 minutes with its growth factor
C20_Witness ==
    \E i \in 1..Len(dailyLog) :
        /\ dailyLog[i].practice
        /\ dailyLog[i].minutes = 120
        /\ dailyLog[i].growthFactor = Num(1165936)

\* --------------------------------------------------------- regimens
\* C21: from the empty log, 90 days in a row of 40 minutes of practice
\* (each logged, then the day finished) end with the energy of the last
\* entry within 2 of 100.0, and so do 30 days in a row of 120 minutes.
C21_RegimensReachTarget ==
    \A minutes \in {40, 120} :
        (/\ Len(dailyLog) = RegimenDays(minutes)
         /\ dailyLog[1].minutes = minutes) =>
            /\ \A i \in 1..Len(dailyLog) :
                   /\ dailyLog[i].day = i
                   /\ dailyLog[i].practice
                   /\ dailyLog[i].minutes = minutes
            /\ dailyLog[Len(dailyLog)].energy >= 9800
            /\ dailyLog[Len(dailyLog)].energy <= 10200

\* C21 witness: the ninetieth day of 40 minutes is logged
C21_Witness ==
    /\ Len(dailyLog) = 90
    /\ dailyLog[90].day = 90
    /\ dailyLog[90].minutes = 40
    /\ currentDay = 90

\* C22: from the empty log, 40 minutes of practice on day 1 store energy
\* 1.05, gain 0.05 and growthFactor 1.052496; the day finished, a skip
\* on day 2 is computed from a start energy of about 1.05 and stores a
\* loss within 0.005 of 0.105 and an energy within 0.005 of 0.947.
C22_ExampleScenario ==
    [][/\ (/\ dailyLog = <<>>
           /\ Len(dailyLog') = 1
           /\ dailyLog'[1].practice /\ dailyLog'[1].minutes = 40) =>
              /\ dailyLog'[1].day = 1
              /\ dailyLog'[1].energy = 105
              /\ dailyLog'[1].gain = Num(5)
              /\ dailyLog'[1].growthFactor = Num(1052496)
              /\ currentEnergy' = DecProduct(100, 1052496)
       /\ (/\ Len(dailyLog) = 1
           /\ dailyLog[1].practice /\ dailyLog[1].minutes = 40
           /\ currentEnergy = DecProduct(100, 1052496)
           /\ currentDay = 2
           /\ Len(dailyLog') = 2
           /\ ~dailyLog'[2].practice) =>
              /\ dailyLog'[2].day = 2
              /\ ToFixed2(currentEnergy) = 105
              /\ dailyLog'[2].loss.t = "number"
              /\ dailyLog'[2].loss.v * 10 >= 105 - 5
              /\ dailyLog'[2].loss.v * 10 <= 105 + 5
              /\ dailyLog'[2].energy * 10 >= 947 - 5
              /\ dailyLog'[2].energy * 10 <= 947 + 5]_vars

\* C22 witness: the scenario has run to its end
C22_Witness ==
    /\ Len(dailyLog) = 2
    /\ dailyLog[1].practice /\ dailyLog[1].minutes = 40
    /\ dailyLog[1].energy = 105
    /\ ~dailyLog[2].practice /\ dailyLog[2].day = 2
    /\ dailyLog[2].loss = Num(11) /\ dailyLog[2].energy = 95
    /\ currentEnergy = DecTimesTenths(DecProduct(100, 1052496), 9)

\* -------------------------------------------------------- round trip
\* what fetchLog sets from the rows of the store
LoadedDay(rows) == IF rows = <<>> THEN 1 ELSE rows[Len(rows)].day + 1

LoadedEnergy(rows) ==
    DecOfHundredths(IF rows = <<>> THEN 100 ELSE rows[Len(rows)].energy)

\* every persistence call so far was answered without an error, none is
\* still waiting, and the store holds the log
AllSaved ==
    /\ ~isLoading
    /\ pending = <<>>
    /\ failures = 0
    /\ db = [i \in 1..Len(dailyLog) |-> DbRow(dailyLog[i])]

\* C23: in a state reached by operations whose persistence calls all
\* succeeded, loading the persisted log again gives the currentDay and
\* the currentEnergy the tracker has: the day of the last entry plus 1 and
\* the energy of the last entry.
C23_LoadRoundTrip ==
    AllSaved =>
        /\ currentDay = LoadedDay(db)
        /\ currentEnergy = LoadedEnergy(db)

\* --------------------------------------------------------------- reset
\* the stopwatch as the reset leaves it
TimerCleared ==
    /\ ~isPracticing'
    /\ startTime' = 0
    /\ elapsedTime' = 0
    /\ accumulatedSecondsToday' = 0

\* C24: a reset yields the initial state or changes nothing.  When the
\* user confirms and the delete of all rows succeeds, the log is empty,
\* currentDay = 1, currentEnergy = 1 and the stopwatch is cleared; when
\* the user declines, or the delete fails, the log, currentDay,
\* currentEnergy and the stopwatch are what they were (and nothing
\* changes while the delete is waited for).
C24_ResetAllOrNothing ==
    [][/\ \A i \in DOMAIN pending :
              /\ Resumes(i, "resetSimulation", FALSE) =>
                     /\ dailyLog' = <<>>
                     /\ currentDay' = 1
                     /\ currentEnergy' = DecOfHundredths(100)
                     /\ TimerCleared
                     /\ db' = <<>>
              /\ Resumes(i, "resetSimulation", TRUE) =>
                     UNCHANGED <<dailyLog, currentDay, currentEnergy,
                                 isPracticing, startTime, elapsedTime,
                                 accumulatedSecondsToday, db>>
       /\ Starts("resetSimulation") =>
              UNCHANGED <<dailyLog, currentDay, currentEnergy,
                          isPracticing, startTime, elapsedTime,
                          accumulatedSecondsToday, db>>
       /\ lastResponse' = Declined =>
              UNCHANGED <<dailyLog, currentDay, currentEnergy,
                          isPracticing, startTime, elapsedTime,
                          accumulatedSecondsToday, db, pending,
                          isLoading>>]_vars

\* C24 witness: the delete of a reset failed, with a log in memory and a
\* day in progress
C24_Witness ==
    /\ lastResponse.op = "resetSimulation"
    /\ lastResponse.error
    /\ dailyLog # <<>>
    /\ accumulatedSecondsToday > 0

\* --------------------------------------------------------- current day
\* C25: in every reachable state currentDay is the next day to be logged:
\* the day of the last entry plus 1, or 1 when the log is empty.
C25_CurrentDayFollowsLog ==
    currentDay = LoadedDay(dailyLog)

\* ------------------------------------------------------------- retries
\* C26: every write sent to the store (for practice, for a skip, for a
\* recalculation) is an upsert keyed by day: sent a second time, the
\* write of an operation that succeeded succeeds again and leaves the
\* rows as they were after the first time, one row a day.
C26_WritesCanBeRetried ==
    [][\A i \in DOMAIN pending :
          /\ Resumes(i, "handleEndPractice", FALSE) =>
                 Upsert(db', pending[i].rows) = db'
          /\ Resumes(i, Recalculation, FALSE) =>
                 /\ ~UpsertRefused(pending[i].rows)
                 /\ Upsert(db', pending[i].rows) = db'
          /\ Resumes(i, "logSkippedDay", FALSE) =>
                 /\ ~InsertRefused(db', pending[i].rows[1])
                 /\ InsertRow(db', DbRow(pending[i].rows[1])) = db']_vars

\* ------------------------------------------------------- start energy
\* the entry the handler that starts in this step sends to the store
Sent == pending'[Len(pending')].rows[1]

\* C27: when handleEndPractice logs a day that has no entry yet, the
\* energy it multiplies by the growth factor is currentEnergy as it is at
\* that moment (a number of hundredths, the only start energies the
\* product is taken of), and the gain it stores is the new energy minus
\* that start energy, rounded to 2 decimals.
C27_PracticeStartsFromCurrentEnergy ==
    [][(Starts("handleEndPractice") /\ FindIndex(dailyLog, currentDay) = 0)
          => /\ currentEnergy.d = <<>>
             /\ currentEnergy' =
                    DecProduct(currentEnergy.h, Sent.growthFactor.v)
             /\ Sent.gain =
                    Num(IF currentEnergy'.h >= currentEnergy.h
                        THEN ToFixed2(DecMinus(currentEnergy', currentEnergy))
                        ELSE -ToFixed2(DecMinus(currentEnergy,
                                                currentEnergy')))]_vars

\* ---------------------------------------------------- pause and resume
\* the stored energy of the entry of the day before, 1.00 without one
StoredEnergyBefore(log, day) ==
    IF FindIndex(log, day - 1) = 0 THEN 100
    ELSE log[FindIndex(log, day - 1)].energy

\* C28: however often practice was paused and resumed on the day, the
\* entry handleEndPractice writes for it has the minutes of all the
\* seconds accumulated on the day, the interval just ended included
\* (at least 1), and the stored energy of the day before (1.00 if that
\* day has no entry) times the growth factor of those minutes, rounded
\* to 2 decimals: the entry it replaces has no part in it.
C28_PauseAndResumeDoNotCompound ==
    [][Starts("handleEndPractice") =>
          LET seconds == accumulatedSecondsToday + (now - startTime)
              minutes == Max(1, RoundDiv(seconds, 60))
              S == StoredEnergyBefore(dailyLog, currentDay)
          IN  /\ accumulatedSecondsToday' = seconds
              /\ Sent.day = currentDay
              /\ Sent.minutes = minutes
              /\ Sent.energy =
                     ToFixed2(DecProduct(S, baseValue
                                            + minutes * minuteMultiplier))
              /\ dailyLog'[FindIndex(dailyLog', currentDay)] = Sent]_vars

\* the second pause of day 1 has written its entry: 30 minutes before the
\* first pause and 30 after resuming give 60 minutes and 1.08, not the
\* 1.04 of the first entry grown again
C28_Witness ==
    /\ currentDay = 1 /\ overlaps = 0
    /\ Len(pending) = 1 /\ pending[1].op = "handleEndPractice"
    /\ startTime = 1 + TickSeconds
    /\ accumulatedSecondsToday = 2 * TickSeconds
    /\ dailyLog # <<>>
    /\ dailyLog[1].minutes = 60 /\ dailyLog[1].energy = 108

\* ------------------------------------------------------- entry shapes
Populated(field) == field.t = "number"
NullOrAbsent(field) == field.t \in {"null", "undefined"}

\* C29: in every reachable state each entry of the log has the shape of
\* its kind: a practice entry has gain and growthFactor populated and loss
\* null or absent; a skip entry has 0 minutes, loss populated and gain and
\* growthFactor null or absent.
C29_EntriesHaveTheShapeOfTheirKind ==
    \A i \in 1..Len(dailyLog) :
        LET entry == dailyLog[i]
        IN  IF entry.practice
            THEN /\ Populated(entry.gain)
                 /\ Populated(entry.growthFactor)
                 /\ NullOrAbsent(entry.loss)
            ELSE /\ entry.minutes = 0
                 /\ Populated(entry.loss)
                 /\ NullOrAbsent(entry.gain)
                 /\ NullOrAbsent(entry.growthFactor)

\* a recalculation has been stored over a log that holds a practice entry
\* and, after it, a skip entry
C29_Witness ==
    /\ lastResponse = Response(Recalculation, FALSE, FALSE)
    /\ Len(dailyLog) = 2
    /\ dailyLog[1].practice /\ Populated(dailyLog[1].gain)
    /\ ~dailyLog[2].practice /\ Populated(dailyLog[2].loss)

\* -------------------------------------------------- minutes of practice
\* C30: in every reachable state every practice entry of the log has at
\* least 1 minute: no practice entry of 0 minutes, whose growth factor
\* is below 1, is in the log.
C30_PracticeEntriesHaveMinutes ==
    \A i \in 1..Len(dailyLog) :
        dailyLog[i].practice => dailyLog[i].minutes >= 1

\* ---------------------------------------------------- overlapping skips
\* an earlier logSkippedDay still waits for the answer to its insert
SkipAwaited == \E i \in DOMAIN pending : pending[i].op = "logSkippedDay"

\* the handler pending[i] was called while the day of its render had
\* been given a skip entry by an earlier call
CalledOverSkip(i) ==
    /\ pending[i].op = "logSkippedDay"
    /\ \E j \in 1..Len(pending[i].closure.dailyLog) :
           /\ pending[i].closure.dailyLog[j].day =
                  pending[i].closure.currentDay
           /\ ~pending[i].closure.dailyLog[j].practice

\* C31: when logSkippedDay is called while an earlier call still waits
\* for its insert, the log keeps one entry a day, the energy decays only
\* with an entry added, and when the later call resumes currentDay goes
\* on by one for the entry it added.
C31_OverlappingSkipsCountEachDayOnce ==
    [][/\ (SkipAwaited /\ Starts("logSkippedDay")) =>
             /\ \A d \in Days(dailyLog') :
                    Cardinality(EntriesOf(dailyLog', d)) = 1
             /\ currentEnergy' # currentEnergy =>
                    Len(dailyLog') = Len(dailyLog) + 1
       /\ \A i \in DOMAIN pending, error \in BOOLEAN :
             (CalledOverSkip(i) /\ Resumes(i, "logSkippedDay", error)) =>
                 currentDay' = currentDay + 1]_vars

\* --------------------------------------------------- overlapping pauses
\* an earlier handleEndPractice still waits for the answer to its upsert
PauseAwaited ==
    \E i \in DOMAIN pending : pending[i].op = "handleEndPractice"

\* C32: when handleEndPractice is called while an earlier call still
\* waits for its upsert, the interval that ended is not added a second
\* time: the seconds timed on the day lie between the load of the page
\* (now = 1) and now, so, each counted once, they and the minutes of the
\* entry written are no more than that stretch of time holds.
C32_IntervalsAreCountedOnce ==
    [][(PauseAwaited /\ Starts("handleEndPractice")) =>
          /\ accumulatedSecondsToday' <= now - 1
          /\ Sent.minutes <= Max(1, RoundDiv(now - 1, 60))]_vars

\* ------------------------------------------------ events after a reload
\* between two events: everything is saved and the day is the one a
\* reload would set
BetweenEvents == AllSaved /\ currentDay = LoadedDay(db)

\* C33: an event gives the same entry and the same currentEnergy whether
\* or not the page was loaded again before it.  With every call answered
\* without error and the day finished, the skip and the practice that
\* run next write the entry, and set the currentEnergy, that they would
\* write and set from the state fetchLog builds out of the stored rows.
C33_EventsDoNotDependOnReloads ==
    [][BetweenEvents =>
          /\ Starts("logSkippedDay") =>
                 LET s == SkipEntry(LoadedDay(db), LoadedEnergy(db))
                 IN  /\ currentEnergy' = s.energy
                     /\ Sent.day = s.day
                     /\ Sent.energy = s.stored
                     /\ Sent.loss = Num(s.loss)
          /\ Starts("handleEndPractice") =>
                 LET p == PracticeEntry(db, LoadedDay(db),
                                        accumulatedSecondsToday')
                 IN  /\ currentEnergy' = p.energy
                     /\ Sent = p.entry]_vars

\* ------------------------------------------------------- edit and back
\* the log after the minutes of the entry at index k of log are edited
\* to m and the recalculation is stored
Edited(log, k, m) == Recalculated(k, LogCopyWithEdit(log, k, m))

\* C34: when an edit of a practice day from m to m' has been stored,
\* editing the day back to m (stored as well) gives every entry of the
\* log, and currentEnergy, the values they had before the first edit.
C34_EditAndBackRestores ==
    [][\A i \in DOMAIN pending :
          Resumes(i, Recalculation, FALSE) =>
              LET before == pending[i].closure
                  k == EditedIndex(i)
                  back == Edited(dailyLog', k, before.dailyLog[k].minutes)
              IN  /\ back = before.dailyLog
                  /\ DecOfHundredths(
                         EnergyAfterRecalculation(back, currentDay'))
                       = before.currentEnergy]_vars

\* -------------------------------------------------- store and memory
\* what a row and an entry are compared by
Stored(entry) ==
    [day |-> entry.day, practice |-> entry.practice,
     minutes |-> entry.minutes, energy |-> entry.energy]

\* no call is waiting for its answer and none was answered with an error
\* of the collaborator's own
AllAnswered ==
    /\ ~isLoading
    /\ pending = <<>>
    /\ failures = 0
    /\ ~lastResponse.error

\* C35: once every persistence call has been answered without error, the
\* stored rows are the log: the same days, and for each day the same
\* practice flag, minutes and energy, so that loading them gives the log.
C35_StoreIsTheLog ==
    AllAnswered =>
        /\ Len(db) = Len(dailyLog)
        /\ \A i \in 1..Len(dailyLog) : Stored(db[i]) = Stored(dailyLog[i])

\* ------------------------------------------------------------ recovery
\* the last entry stores the target energy 100.00 or more
TargetReached ==
    dailyLog # <<>> /\ dailyLog[Len(dailyLog)].energy >= 100 * 100

\* C36: whatever number of days was skipped first, 40 minutes of practice
\* every day from then on bring the stored energy to the target 100 in
\* the end (RecoveryDays days of practice are enough wherever the stored
\* energy grows at all).
C36_DailyPracticeReachesTarget ==
    <>TargetReached

\* ------------------------------------------------- the timer of a day
\* C37: a step that changes currentDay leaves the stopwatch stopped and
\* empty (isPracticing false, no startTime, accumulatedSecondsToday and
\* elapsedTime 0), and while the stopwatch runs no click changes
\* currentDay; so the seconds handleEndPractice counts for a day,
\* accumulatedSecondsToday and the time since startTime, were all timed
\* since the day began.
C37_DayChangeClearsTheTimer ==
    [][/\ currentDay' # currentDay =>
             /\ ~isPracticing'
             /\ startTime' = 0
             /\ accumulatedSecondsToday' = 0
             /\ elapsedTime' = 0
       /\ (isPracticing /\ pending' = pending) =>
             currentDay' = currentDay]_vars

\* a skip has been answered and currentDay moved on to day 2 while a
\* practice of 30 minutes, timed on day 1, waits for its upsert: the
\* seconds it accumulated are gone
C37_Witness ==
    /\ lastResponse.op = "logSkippedDay"
    /\ currentDay = 2
    /\ \E i \in DOMAIN pending :
           /\ pending[i].op = "handleEndPractice"
           /\ pending[i].rows[1].minutes = 30
    /\ accumulatedSecondsToday = 0 /\ elapsedTime = 0
    /\ ~isPracticing /\ startTime = 0

\* ------------------------------------------------------- initial load
\* C38: the answer to the select of fetchLog sets the state from the
\* store.  With no rows, and also when the select fails, the log is
\* empty, currentDay = 1 and currentEnergy = 1.0; with rows, the log is
\* the rows in ascending order of day, currentDay is the day of the last
\* row plus 1 and currentEnergy the energy of the last row.
C38_LoadSetsStateFromStore ==
    [][\A i \in DOMAIN pending, error \in BOOLEAN :
          Resumes(i, "fetchLog", error) =>
              IF error \/ db = <<>>
              THEN /\ dailyLog' = <<>>
                   /\ currentDay' = 1
                   /\ currentEnergy' = DecOfHundredths(100)
              ELSE /\ dailyLog' = db
                   /\ \A j \in 2..Len(dailyLog') :
                          dailyLog'[j - 1].day < dailyLog'[j].day
                   /\ currentDay' = db[Len(db)].day + 1
                   /\ currentEnergy' =
                          DecOfHundredths(db[Len(db)].energy)]_vars

\* the rows of two days have been loaded
C38_Witness ==
    /\ lastResponse = Response("fetchLog", FALSE, FALSE)
    /\ Len(db) = 2
    /\ dailyLog = db
    /\ currentDay = db[2].day + 1
    /\ currentEnergy = DecOfHundredths(db[2].energy)

\* ---------------------------------------------------- the first version
\* the log has an entry for each of the days 1 .. currentDay - 1, in order
LogOfPastDays ==
    /\ Len(dailyLog) = currentDay - 1
    /\ \A i \in 1..Len(dailyLog) : dailyLog[i].day = i

\* C39: in the first version, once a day is logged (didPracticeToday),
\* logPracticeDay and logSkippedDay change nothing until nextDay or a
\* reset clears the flag; a step that adds to the log appends one entry,
\* for currentDay, and increments currentDay; so in every reachable state
\* the log has exactly currentDay - 1 entries, of the days
\* 1, 2, ..., currentDay - 1 in order.
C39_FirstVersionLogsEachDayOnce ==
    /\ []LogOfPastDays
    /\ [][/\ (didPracticeToday /\ didPracticeToday') =>
                UNCHANGED <<dailyLog, currentDay, currentEnergy>>
          /\ (dailyLog' # dailyLog /\ dailyLog' # <<>>) =>
                /\ Len(dailyLog') = Len(dailyLog) + 1
                /\ SubSeq(dailyLog', 1, Len(dailyLog)) = dailyLog
                /\ dailyLog'[Len(dailyLog')].day = currentDay
                /\ currentDay' = currentDay + 1
                /\ didPracticeToday']_vars

\* day 3 has just been logged, after a practice and a skip
C39_Witness ==
    /\ didPracticeToday
    /\ currentDay = 4
    /\ Len(dailyLog) = 3
    /\ dailyLog[1].practice /\ ~dailyLog[2].practice

====
